---- MODULE Spec2Model ----
(***************************************************************************)
(* Model of src/ldes-consumer/app.py: the LDES consumer orchestrator.      *)
(* One container is spawned per feed of ldes-feeds.yaml, the spawned       *)
(* containers are polled every 10 seconds, and a SIGINT/SIGTERM handler     *)
(* stops and removes them before the process exits.                        *)
(*                                                                         *)
(* Encoding of Python values:                                              *)
(*   - a dict is a function; {} is << >>; d.get(k, v) is DictGet(d, k, v); *)
(*   - an ordered mapping (feeds) is a sequence of [name, data] records    *)
(*     with distinct names;                                                *)
(*   - None is NoneVal;                                                    *)
(*   - a YAML scalar that is not a string (the integer 10) is written      *)
(*     "#10"; Str renders it as Python's str() does.                       *)
(***************************************************************************)
EXTENDS Integers, Sequences, FiniteSets, TLC

\* ------------------------------------------------------------------ bounds
MaxFeeds == 2        \* feeds in one configuration
MaxSignals == 2      \* termination signals delivered in one run
MaxOverrides == 2    \* keys in one feed's environment mapping (SpecEnv)

NameUniverse == <<"a", "b", "c", "d">>
FeedNames == {NameUniverse[i] : i \in 1..MaxFeeds}

\* ------------------------------------------------------- Python primitives
NoneVal == [py_none |-> TRUE]   \* None where a mapping is expected
PyNone == "<None>"              \* None where a string is expected
Truthy(v) == v \notin {PyNone, ""}
EmptyDict == << >>

DictGet(d, k, default) == IF k \in DOMAIN d THEN d[k] ELSE default

NonStrVals == {"#10"}
IsStr(v) == v \notin NonStrVals

\* str(value)
Str(v) == IF v = "#10" THEN "10" ELSE v

\* value.lower() on the strings that occur as log levels
Lower(v) ==
    CASE v = "DEBUG" -> "debug"
      [] v = "INFO"  -> "info"
      [] v = "Warn"  -> "warn"
      [] OTHER       -> v     \* "info": already lower case

\* ------------------------------------------------- environment of a feed
RequiredKeys ==
    {"SPARQL_ENDPOINT", "TARGET_GRAPH", "FOLLOW", "MEMBER_BATCH_SIZE",
     "MATERIALIZE", "LOG_LEVEL", "LDES", "POLLING_FREQUENCY",
     "FAILURE_IS_FATAL", "OPERATION_MODE", "SHAPE"}

\* (the feed name left out of the container name)
ContainerNameFixed(feed_name) == "ldes-consumer"

\* f"ldes-consumer-{feed_name}"
ContainerName(feed_name) == "ldes-consumer-" \o feed_name

\* f"{host_pwd}/data/ldes-consumer/state/{feed_name}"
FeedStateDir(host_pwd, feed_name) ==
    host_pwd \o "/data/ldes-consumer/state/" \o feed_name

\* f"urn:kgap:{graph_prefix}:{feed_name}"
DefaultTargetGraph(graph_prefix, feed_name) ==
    "urn:kgap:" \o graph_prefix \o ":" \o feed_name

\* f"http://graphdb:7200/repositories/{gdb_repo}/statements" unless
\* DEFAULT_SPARQL_ENDPOINT is set
DefaultSparqlEndpoint(os) ==
    DictGet(os, "DEFAULT_SPARQL_ENDPOINT",
            "http://graphdb:7200/repositories/"
                \o DictGet(os, "GDB_REPO", "kgap") \o "/statements")

FeedEnv(feed_data) == DictGet(feed_data, "environment", EmptyDict)

TargetGraph(feed_name, feed_data, graph_prefix) ==
    DictGet(FeedEnv(feed_data), "TARGET_GRAPH",
            DictGet(feed_data, "target_graph",
                    DefaultTargetGraph(graph_prefix, feed_name)))

\* the value .lower() is called on
LogLevelRaw(feed_data, os) ==
    DictGet(FeedEnv(feed_data), "LOG_LEVEL",
            DictGet(os, "LDES_LOG_LEVEL", DictGet(os, "LOG_LEVEL", "DEBUG")))

SparqlEndpointOf(feed_env, os) ==
    DictGet(feed_env, "SPARQL_ENDPOINT",
            DictGet(os, "DEFAULT_SPARQL_ENDPOINT", ""))

\* feed_url
FeedUrl(feed_data) == DictGet(feed_data, "url", "")

\* the env_vars literal
BaseEnvVars(feed_name, feed_data, os, graph_prefix) ==
    LET feed_env == FeedEnv(feed_data) IN
    [SPARQL_ENDPOINT   |-> SparqlEndpointOf(feed_env, os),
     TARGET_GRAPH      |-> TargetGraph(feed_name, feed_data, graph_prefix),
     FOLLOW            |-> DictGet(feed_env, "FOLLOW", "false"),
     MEMBER_BATCH_SIZE |-> DictGet(feed_env, "MEMBER_BATCH_SIZE", "500"),
     MATERIALIZE       |-> DictGet(feed_env, "MATERIALIZE", "false"),
     LOG_LEVEL         |-> Lower(LogLevelRaw(feed_data, os)),
     LDES              |-> FeedUrl(feed_data),
     POLLING_FREQUENCY |-> DictGet(feed_env, "POLLING_FREQUENCY", "60000"),
     FAILURE_IS_FATAL  |-> DictGet(feed_env, "FAILURE_IS_FATAL", "false"),
     OPERATION_MODE    |-> DictGet(feed_env, "OPERATION_MODE", "Replication"),
     SHAPE             |-> DictGet(feed_env, "SHAPE", "")]

\* env_vars after the pass-through loop over feed_env.items()
EnvVars(feed_name, feed_data, os, graph_prefix) ==
    LET feed_env == FeedEnv(feed_data)
        base == BaseEnvVars(feed_name, feed_data, os, graph_prefix)
        extra == [k \in (DOMAIN feed_env) \ (DOMAIN base) |-> Str(feed_env[k])]
    IN  base @@ extra

\* feed_data.get(...) raises AttributeError on a feed whose value is null
FieldsRaise(feed_data) == feed_data = NoneVal

\* .lower() raises AttributeError on a value that is not a string
EnvRaises(feed_data, os) == ~IsStr(LogLevelRaw(feed_data, os))

\* ------------------------------------------------------ context detection
ComposeKeys ==
    {"com.docker.compose.project",
     "com.docker.compose.project.working_dir",
     "com.docker.compose.project.config_files"}

\* (every label of the own container taken over)
get_compose_labels_all(os, self) ==
    IF "HOSTNAME" \notin DOMAIN os THEN EmptyDict
    ELSE IF ~self.gettable THEN EmptyDict
    ELSE IF ~self.has_labels THEN EmptyDict
    ELSE self.labels

\* self is the orchestrator's own container as containers.get(HOSTNAME)
\* finds it: [gettable, has_labels, labels, networks]; has_labels is FALSE
\* when reading container.labels raises
get_compose_labels(os, self) ==
    IF "HOSTNAME" \notin DOMAIN os THEN EmptyDict
    ELSE IF ~self.gettable THEN EmptyDict
    ELSE IF ~self.has_labels THEN EmptyDict
    ELSE [k \in ComposeKeys \cap DOMAIN self.labels |-> self.labels[k]]

\* (a default network returned when the lookup fails)
get_parent_network_bridge(os, self) ==
    IF "HOSTNAME" \notin DOMAIN os THEN "bridge"
    ELSE IF ~self.gettable THEN "bridge"
    ELSE IF self.networks # << >> THEN self.networks[1]
    ELSE "bridge"

get_parent_network(os, self) ==
    IF "HOSTNAME" \notin DOMAIN os THEN PyNone
    ELSE IF ~self.gettable THEN PyNone
    ELSE IF self.networks # << >> THEN self.networks[1]
    ELSE PyNone

\* (DOCKER_NETWORK before the detected network)
DockerNetworkOverrideFirst(os, self) ==
    IF Truthy(DictGet(os, "DOCKER_NETWORK", PyNone))
    THEN DictGet(os, "DOCKER_NETWORK", PyNone)
    ELSE get_parent_network(os, self)

\* docker_network after the DOCKER_NETWORK fallback
DockerNetwork(os, self) ==
    IF ~Truthy(get_parent_network(os, self))
    THEN DictGet(os, "DOCKER_NETWORK", PyNone)
    ELSE get_parent_network(os, self)

\* volumes
Volumes(feed_state_dir) ==
    [d \in {feed_state_dir} |-> [bind |-> "/state", mode |-> "rw"]]

\* container_config handed to docker_client.containers.run
ContainerConfig(image, feed_name, env_vars, volumes, compose_labels, docker_network) ==
    LET base == [image |-> image,
                 name |-> ContainerName(feed_name),
                 environment |-> env_vars,
                 detach |-> TRUE,
                 remove |-> FALSE,
                 volumes |-> volumes]
        withLabels ==
            IF DOMAIN compose_labels # {}
            THEN [labels |->
                      [k \in {"com.docker.compose.service"} |-> ContainerName(feed_name)]
                      @@ compose_labels]
                 @@ base
            ELSE base
    IN  IF Truthy(docker_network)
        THEN [network |-> docker_network] @@ withLabels
        ELSE withLabels

\* ----------------------------------------------------------------- state
VARIABLES
    pc,          \* position of main: connect, load, process_feeds, feeds,
                 \*   install, loop, exited
    osenv,       \* os.environ
    cfgFile,     \* the file at LDES_CONFIG_PATH: [status, config]
    dockerUp,    \* whether docker.from_env() / ping() succeed
    selfc,       \* the orchestrator's own container, see get_compose_labels
    runtime,     \* the Docker daemon: container name -> [owner, status]
    containers,  \* the list process_feeds builds and main keeps
    idx,         \* position of the for loop over feeds.items()
    ctx,         \* locals of process_feeds computed before the loop
    calls,       \* run / stop / remove calls issued to the daemon, in order
    stateDirs,   \* directories created by Path.mkdir
    exitCode,    \* -1 while the process runs
    frames,      \* active cleanup_containers invocations, innermost last
    sigs,        \* signals delivered so far: how many, and the last one
    ncalls,      \* cleanup_containers invocations that ran to completion
    printed,     \* the last line the loop or the handler printed, and for a
                 \*   poll round the handles whose reload raised
    loopEntered, \* the supervision loop was entered
    steps        \* what main has done so far, in order: connect, load,
                 \*   detect, and the name of each feed handed to run

vars == <<pc, osenv, cfgFile, dockerUp, selfc, runtime, containers, idx, ctx,
          calls, stateDirs, exitCode, frames, sigs, ncalls, printed, loopEntered,
          steps>>

inputs == <<osenv, cfgFile, dockerUp, selfc>>

Ldes2SparqlImage(os) ==
    DictGet(os, "LDES2SPARQL_IMAGE", "ghcr.io/maregraph-eu/ldes2sparql:latest")

ContainerNames == {ContainerName(n) : n \in FeedNames}

Absent == [owner |-> "none", status |-> "none"]

\* The orchestrator's view of a feed list
Feeds == cfgFile.config.feeds

\* ------------------------------------------------------------ operations
\* the process ends; frames keeps the call stack it ended with
Exit(code) ==
    /\ pc' = "exited"
    /\ exitCode' = code
    /\ frames' = frames

\* main: docker.from_env(), ping()
Connect ==
    /\ pc = "connect"
    /\ IF dockerUp
       THEN /\ pc' = "load"
            /\ steps' = Append(steps, "connect")
            /\ UNCHANGED <<exitCode, frames>>
       ELSE Exit(1) /\ UNCHANGED steps
    /\ UNCHANGED <<inputs, runtime, containers, idx, ctx, calls, stateDirs,
                   sigs, ncalls, printed, loopEntered>>

\* (yaml.YAMLError not handled as fatal)
LoadExitsOnlyMissing(file) == file.status = "missing"

\* load_ldes_feeds ends in sys.exit(1)
LoadExits(file) == file.status \in {"missing", "badyaml"}

\* main: load_ldes_feeds(config_path)
LoadConfig ==
    /\ pc = "load"
    /\ IF LoadExits(cfgFile)
       THEN Exit(1) /\ UNCHANGED steps
       ELSE /\ pc' = "process_feeds"
            /\ steps' = Append(steps, "load")
            /\ UNCHANGED <<exitCode, frames>>
    /\ UNCHANGED <<inputs, runtime, containers, idx, ctx, calls, stateDirs,
                   sigs, ncalls, printed, loopEntered>>

\* process_feeds up to the for loop
ProcessFeedsBegin ==
    /\ pc = "process_feeds"
    /\ IF "feeds" \notin DOMAIN cfgFile.config
       THEN /\ pc' = "install"
            /\ UNCHANGED <<containers, idx, ctx, steps>>
       ELSE /\ containers' = << >>
            /\ steps' = Append(steps, "detect")
            /\ ctx' = [host_pwd |-> DictGet(osenv, "HOST_PWD", "/cwd"),
                       graph_prefix |-> DictGet(osenv, "GRAPH_PREFIX", "ldes"),
                       compose_labels |-> get_compose_labels(osenv, selfc),
                       docker_network |-> DockerNetwork(osenv, selfc),
                       default_sparql_endpoint |-> DefaultSparqlEndpoint(osenv)]
            /\ idx' = 1
            /\ pc' = IF Len(Feeds) = 0 THEN "install" ELSE "feeds"
    /\ UNCHANGED <<inputs, runtime, calls, stateDirs, exitCode, frames,
                   sigs, ncalls, printed, loopEntered>>

\* docker_client.containers.run: the daemon refuses a name that is in use
RunRefused(name) == runtime[name].owner # "none"

\* (containers.insert(0, container))
TrackedInFront(cs, h, ok) == IF ok THEN <<h>> \o cs ELSE cs

\* (append outside the try block)
TrackedAlways(cs, h, ok) == Append(cs, h)

\* containers after the try block around containers.run: append comes after
\* run in the try, so a raise skips it
Tracked(cs, h, ok) == IF ok THEN Append(cs, h) ELSE cs

\* (a spawn failure that ends the pass)
AfterRunPcAborting(i, n, ok) == IF i = n \/ ~ok THEN "install" ELSE "feeds"

\* where the for loop goes after the try block of feed i of n: both except
\* clauses fall through to the next feed
AfterRunPc(i, n, ok) == IF i = n THEN "install" ELSE "feeds"

\* one iteration of the for loop over feeds.items()
ProcessFeed ==
    /\ pc = "feeds"
    /\ LET feed_name == Feeds[idx].name
           feed_data == Feeds[idx].data
           feed_state_dir == FeedStateDir(ctx.host_pwd, feed_name)
       IN
       IF FieldsRaise(feed_data)
       THEN \* AttributeError leaves process_feeds and main
            /\ Exit(1)
            /\ UNCHANGED <<runtime, containers, idx, calls, stateDirs, steps>>
       ELSE \E mkdir_ok \in BOOLEAN :
            IF ~mkdir_ok
            THEN \* OSError leaves process_feeds and main
                 /\ Exit(1)
                 /\ UNCHANGED <<runtime, containers, idx, calls, stateDirs, steps>>
            ELSE
            /\ stateDirs' = stateDirs \cup {feed_state_dir}
            /\ IF EnvRaises(feed_data, osenv)
               THEN \* AttributeError leaves process_feeds and main
                    /\ Exit(1)
                    /\ UNCHANGED <<runtime, containers, idx, calls, steps>>
               ELSE
               LET cfg == ContainerConfig(
                              Ldes2SparqlImage(osenv), feed_name,
                              EnvVars(feed_name, feed_data, osenv, ctx.graph_prefix),
                              Volumes(feed_state_dir),
                              ctx.compose_labels, ctx.docker_network)
               IN
               \E run_ok \in BOOLEAN :
                  LET ok == run_ok /\ ~RunRefused(cfg.name) IN
                  /\ calls' = Append(calls, [op |-> "run", feed |-> feed_name,
                                             name |-> cfg.name, config |-> cfg,
                                             ok |-> ok])
                  /\ runtime' = IF ok
                                THEN [runtime EXCEPT ![cfg.name] =
                                         [owner |-> "run", status |-> "running"]]
                                ELSE runtime
                  /\ containers' = Tracked(containers,
                                       [name |-> cfg.name, feed |-> feed_name], ok)
                  /\ steps' = Append(steps, feed_name)
                  /\ idx' = idx + 1
                  /\ pc' = AfterRunPc(idx, Len(Feeds), ok)
                  /\ UNCHANGED <<exitCode, frames>>
    /\ UNCHANGED <<inputs, ctx, sigs, ncalls, printed, loopEntered>>

\* main: signal.signal(SIGINT, ...), signal.signal(SIGTERM, ...), and the
\* first entry of the while loop
InstallHandlers ==
    /\ pc = "install"
    /\ pc' = "loop"
    /\ loopEntered' = TRUE
    /\ UNCHANGED <<inputs, steps, runtime, containers, idx, ctx, calls, stateDirs,
                   exitCode, frames, sigs, ncalls, printed>>

\* ------------------------------------------------- supervision and signals
\* container.reload() raises when the container no longer exists
ReloadRaises(h, fault) == runtime[h.name].owner # "run" \/ fault

\* (a reload that raises ends the round)
ActiveContainersBreaking(faults) ==
    {i \in 1..Len(containers) :
        /\ \A j \in 1..i : ~ReloadRaises(containers[j], j \in faults)
        /\ runtime[containers[i].name].status = "running"}

\* the handles a poll round puts in active_containers, when the reload of
\* the handles at the positions in faults fails for another reason
ActiveContainers(faults) ==
    {i \in 1..Len(containers) :
        /\ ~ReloadRaises(containers[i], i \in faults)
        /\ runtime[containers[i].name].status = "running"}

\* (containers = active_containers at the end of a round)
PolledContainersPruned(cs, active) ==
    LET IsActive(h) == \E i \in active : cs[i] = h
    IN  SelectSeq(cs, IsActive)

\* the tracked list after a poll round: active_containers is a local list,
\* containers is not assigned
PolledContainers(cs, active) == cs

\* (the loop left when no container is running)
AfterPollPcStopping(nactive) == IF nactive = 0 THEN "exited" ELSE "loop"

\* where main goes after a poll round: time.sleep(10) and the next round,
\* with any number of handles active
AfterPollPc(nactive) == "loop"

\* one round of the while loop: reload every handle, report, sleep
Poll ==
    /\ pc = "loop"
    /\ frames = << >>
    /\ \E faults \in SUBSET (1..Len(containers)) :
          LET active == ActiveContainers(faults) IN
          /\ printed' = [line |-> IF active # {} THEN "running" ELSE "stopped",
                         running |-> Cardinality(active),
                         total |-> Len(containers),
                         raised |-> {i \in 1..Len(containers) :
                                        ReloadRaises(containers[i], i \in faults)}]
          /\ containers' = PolledContainers(containers, active)
          /\ pc' = AfterPollPc(Cardinality(active))
    /\ UNCHANGED <<inputs, steps, runtime, idx, ctx, calls, stateDirs,
                   exitCode, frames, sigs, ncalls, loopEntered>>

Signals == {"SIGINT", "SIGTERM"}
SigNo(sig) == IF sig = "SIGINT" THEN 2 ELSE 15

\* (a signal during teardown goes straight to sys.exit)
NewFrameOnce(depth, n) ==
    IF depth = 0 THEN [i |-> 1, phase |-> "stop"]
    ELSE [i |-> n + 1, phase |-> "stop"]

\* the cleanup_containers pass a signal_handler invocation starts, over n
\* handles, with depth invocations already running: always the whole list
NewFrame(depth, n) == [i |-> 1, phase |-> "stop"]

\* a signal after signal.signal(...): signal_handler starts on top of
\* whatever the main thread was doing, prints and calls cleanup_containers;
\* it is the same handler for both signals and it does not read sig
Signal ==
    /\ pc = "loop"
    /\ sigs.n < MaxSignals
    /\ \E sig \in Signals : sigs' = [sigs EXCEPT !.n = sigs.n + 1]
    /\ frames' = Append(frames, NewFrame(Len(frames), Len(containers)))
    /\ printed' = [line |-> "shutdown", running |-> 0, total |-> 0, raised |-> {}]
    /\ UNCHANGED <<pc, inputs, steps, runtime, containers, idx, ctx, calls, stateDirs,
                   exitCode, ncalls, loopEntered>>

\* a signal before signal.signal(...): SIGINT raises KeyboardInterrupt, which
\* nothing catches, SIGTERM has its default disposition
SignalEarly ==
    /\ pc \in {"connect", "load", "process_feeds", "feeds", "install"}
    /\ sigs.n < MaxSignals
    /\ \E sig \in Signals :
          /\ sigs' = [n |-> sigs.n + 1, last |-> sig]
          /\ Exit(128 + SigNo(sig))
    /\ UNCHANGED <<inputs, steps, runtime, containers, idx, ctx, calls, stateDirs,
                   ncalls, printed, loopEntered>>

\* ----------------------------------------------------- cleanup_containers
Top == frames[Len(frames)]
SetTop(f) == [frames EXCEPT ![Len(frames)] = f]

\* container.stop(timeout=10): NotFound for a container that is gone,
\* otherwise the daemon's answer
StopOk(h, fault) == runtime[h.name].owner = "run" /\ ~fault

\* container.remove()
RemoveOk(h, fault) == runtime[h.name].owner = "run" /\ ~fault

\* (the try block around the for loop instead of inside it)
AfterStopAborting(f, ok, n) ==
    IF ok THEN [f EXCEPT !.phase = "remove"]
    ELSE [i |-> n + 1, phase |-> "stop"]

\* (container.remove() left out)
AfterStopNoRemove(f, ok, n) == [i |-> f.i + 1, phase |-> "stop"]

\* (container.remove() in a finally clause)
AfterStopAlwaysRemove(f, ok, n) == [f EXCEPT !.phase = "remove"]

\* the frame, in a pass over n handles, after container.stop returned or
\* raised: except Exception is inside the for loop
AfterStop(f, ok, n) ==
    IF ok THEN [f EXCEPT !.phase = "remove"]
    ELSE [i |-> f.i + 1, phase |-> "stop"]

\* the try block up to container.stop(timeout=10)
CleanupStop ==
    /\ frames # << >>
    /\ Top.i <= Len(containers)
    /\ Top.phase = "stop"
    /\ LET h == containers[Top.i] IN
       \E fault \in BOOLEAN :
          LET ok == StopOk(h, fault) IN
          /\ calls' = Append(calls, [op |-> "stop", name |-> h.name, ok |-> ok,
                                     call |-> ncalls + Len(frames)])
          /\ runtime' = IF ok
                        THEN [runtime EXCEPT ![h.name].status = "exited"]
                        ELSE runtime
          /\ frames' = SetTop(AfterStop(Top, ok, Len(containers)))
    /\ UNCHANGED <<pc, inputs, steps, containers, idx, ctx, stateDirs, exitCode,
                   sigs, ncalls, printed, loopEntered>>

\* the rest of the try block: container.remove()
CleanupRemove ==
    /\ frames # << >>
    /\ Top.i <= Len(containers)
    /\ Top.phase = "remove"
    /\ LET h == containers[Top.i] IN
       \E fault \in BOOLEAN :
          LET ok == RemoveOk(h, fault) IN
          /\ calls' = Append(calls, [op |-> "remove", name |-> h.name, ok |-> ok,
                                     call |-> ncalls + Len(frames)])
          /\ runtime' = IF ok
                        THEN [runtime EXCEPT ![h.name] = Absent]
                        ELSE runtime
          /\ frames' = SetTop([i |-> Top.i + 1, phase |-> "stop"])
    /\ UNCHANGED <<pc, inputs, steps, containers, idx, ctx, stateDirs, exitCode,
                   sigs, ncalls, printed, loopEntered>>

\* sys.exit(0) of signal_handler
HandlerExitCode == 0

\* (sys.exit(0) not waiting for cleanup_containers)
HandlerMayExitEarly(f, n) == TRUE

\* signal_handler reaches sys.exit(0) when cleanup_containers has returned
HandlerMayExit(f, n) == f.i > n

\* cleanup_containers returns to signal_handler, which calls sys.exit(0):
\* SystemExit unwinds every frame below
HandlerExit ==
    /\ pc = "loop"
    /\ frames # << >>
    /\ HandlerMayExit(Top, Len(containers))
    /\ ncalls' = ncalls + 1
    /\ Exit(HandlerExitCode)
    /\ UNCHANGED <<inputs, steps, runtime, containers, idx, ctx, calls, stateDirs,
                   sigs, printed, loopEntered>>

\* main's except KeyboardInterrupt clause calls cleanup_containers directly:
\* a caller that gets control back when the call returns. pc = "interrupted"
\* is that caller; SpecTeardown uses it to call cleanup_containers twice on
\* one list.
CallCleanup ==
    /\ pc = "interrupted"
    /\ frames = << >>
    /\ ncalls < 2
    /\ frames' = <<[i |-> 1, phase |-> "stop"]>>
    /\ UNCHANGED <<pc, inputs, steps, runtime, containers, idx, ctx, calls, stateDirs,
                   exitCode, sigs, ncalls, printed, loopEntered>>

\* cleanup_containers returns to that caller
CleanupReturn ==
    /\ pc = "interrupted"
    /\ frames # << >>
    /\ Top.i > Len(containers)
    /\ frames' = SubSeq(frames, 1, Len(frames) - 1)
    /\ ncalls' = ncalls + 1
    /\ UNCHANGED <<pc, inputs, steps, runtime, containers, idx, ctx, calls, stateDirs,
                   exitCode, sigs, printed, loopEntered>>

\* ------------------------------------------------------------ the daemon
\* a spawned container's process ends by itself. Only a poll round reads the
\* status, so exits before the loop are taken at the loop and exits after
\* signal_handler started are left out.
ContainerExits ==
    /\ pc = "loop"
    /\ frames = << >>
    /\ \E n \in ContainerNames :
          /\ runtime[n] = [owner |-> "run", status |-> "running"]
          /\ runtime' = [runtime EXCEPT ![n].status = "exited"]
    /\ UNCHANGED <<pc, inputs, steps, containers, idx, ctx, calls, stateDirs, exitCode,
                   frames, sigs, ncalls, printed, loopEntered>>

\* a spawned container is removed by someone else (docker rm -f). A removal
\* while cleanup_containers runs shows to it as a stop or remove call that
\* raises, which CleanupStop and CleanupRemove already choose freely, so
\* removals are taken before signal_handler starts.
ContainerVanishes ==
    /\ pc = "loop"
    /\ frames = << >>
    /\ \E n \in ContainerNames :
          /\ runtime[n].owner = "run"
          /\ runtime' = [runtime EXCEPT ![n] = Absent]
    /\ UNCHANGED <<pc, inputs, steps, containers, idx, ctx, calls, stateDirs, exitCode,
                   frames, sigs, ncalls, printed, loopEntered>>

\* ------------------------------------------------------------ the inputs
FeedUrlValue == "https://example/feed"
GoodFeed == [url |-> FeedUrlValue]
BadLogLevelFeed == [url |-> FeedUrlValue, environment |-> [LOG_LEVEL |-> "#10"]]

FeedDataChoices == {GoodFeed, NoneVal, BadLogLevelFeed}

\* the key orders of a mapping of n feeds that are tried: the first n names
\* in alphabetical order and in reverse
NameOrders(n) ==
    {[i \in 1..n |-> NameUniverse[i]], [i \in 1..n |-> NameUniverse[n + 1 - i]]}

\* the ordered mappings of at most MaxFeeds feeds
FeedLists(dataChoices) ==
    UNION {
        {[i \in 1..n |-> [name |-> ns[i], data |-> ds[i]]] :
            ns \in NameOrders(n), ds \in [1..n -> dataChoices]}
        : n \in 0..MaxFeeds}

NoFeedsConfig == [version |-> "1"]

CfgFiles(dataChoices) ==
    {[status |-> "missing", config |-> NoFeedsConfig],
     [status |-> "badyaml", config |-> NoFeedsConfig],
     [status |-> "ok", config |-> NoFeedsConfig]}
    \cup {[status |-> "ok", config |-> [feeds |-> fl]] : fl \in FeedLists(dataChoices)}

NoContainer ==
    [gettable |-> FALSE, has_labels |-> FALSE, labels |-> [k \in {} |-> ""], networks |-> << >>]
ComposeContainer ==
    [gettable |-> TRUE, has_labels |-> TRUE,
     labels |-> [k \in {"com.docker.compose.project",
                        "com.docker.compose.service", "maintainer"} |->
                    IF k = "com.docker.compose.service" THEN "orchestrator" ELSE "p"],
     networks |-> <<"net1", "net2">>]

\* os.environ together with what containers.get(HOSTNAME) finds: nothing set
\* and no own container (Spec); SpecEnv varies both
Environments ==
    {<<[k \in {} |-> ""], NoContainer>>}

\* the daemon at startup: at most one container left behind by a previous
\* run, under the name of one of the feeds
Runtimes ==
    {[n \in ContainerNames |->
        IF n \in left THEN [owner |-> "previous", status |-> "running"] ELSE Absent] :
        left \in {l \in SUBSET ContainerNames : Cardinality(l) <= 1}}

InitWith(cfgs, envs, ups, runtimes) ==
    /\ pc = "connect"
    /\ \E e \in envs : osenv = e[1] /\ selfc = e[2]
    /\ cfgFile \in cfgs
    /\ dockerUp \in ups
    /\ runtime \in runtimes
    /\ containers = << >>
    /\ idx = 0
    /\ ctx = [k \in {} |-> ""]
    /\ calls = << >>
    /\ stateDirs = {}
    /\ exitCode = -1
    /\ frames = << >>
    /\ sigs = [n |-> 0, last |-> "none"]
    /\ ncalls = 0
    /\ printed = [line |-> "none", running |-> 0, total |-> 0, raised |-> {}]
    /\ loopEntered = FALSE
    /\ steps = << >>

Init == InitWith(CfgFiles(FeedDataChoices), Environments, BOOLEAN, Runtimes)

Next ==
    \/ Connect
    \/ LoadConfig
    \/ ProcessFeedsBegin
    \/ ProcessFeed
    \/ InstallHandlers
    \/ Poll
    \/ Signal
    \/ SignalEarly
    \/ CleanupStop
    \/ CleanupRemove
    \/ HandlerExit
    \/ ContainerExits
    \/ ContainerVanishes

Spec == Init /\ [][Next]_vars

\* ------------------------------------- one feed, varied feed and process
\* the keys a feed's environment mapping may set, and what it sets them to
OverrideKeys == RequiredKeys \cup {"EXTRA"}
OverrideValue(k) ==
    CASE k = "LOG_LEVEL" -> "info"
      [] k = "EXTRA"     -> "#10"
      [] OTHER           -> "override:" \o k

EnvironmentMaps ==
    {[k \in K |-> OverrideValue(k)] :
        K \in {K \in SUBSET OverrideKeys : Cardinality(K) <= MaxOverrides}}

EnvFeedData ==
    LET plain == {GoodFeed} \cup {[environment |-> e] @@ GoodFeed : e \in EnvironmentMaps}
    IN  plain \cup {[target_graph |-> "urn:custom:graph"] @@ d : d \in plain}

EnvCfgFiles ==
    {[status |-> "ok",
      config |-> [feeds |-> <<[name |-> NameUniverse[1], data |-> d]>>]] :
        d \in EnvFeedData}

BareContainer ==
    [gettable |-> TRUE, has_labels |-> TRUE,
     labels |-> [k \in {"maintainer"} |-> "p"], networks |-> << >>]

EnvEnvironments ==
    {<<[k \in {} |-> ""], NoContainer>>,
     <<[DEFAULT_SPARQL_ENDPOINT |-> "http://x/repo", GRAPH_PREFIX |-> "marine"],
       NoContainer>>,
     <<[GDB_REPO |-> "repo2", LOG_LEVEL |-> "Warn", HOSTNAME |-> "self"],
       ComposeContainer>>,
     <<[LDES_LOG_LEVEL |-> "INFO", LOG_LEVEL |-> "Warn", HOSTNAME |-> "self",
        DOCKER_NETWORK |-> "envnet"], NoContainer>>,
     <<[HOSTNAME |-> "self", DOCKER_NETWORK |-> "envnet"], ComposeContainer>>,
     <<[HOSTNAME |-> "self", DOCKER_NETWORK |-> "envnet"], BareContainer>>}

InitEnv ==
    InitWith(EnvCfgFiles, EnvEnvironments, {TRUE}, {[n \in ContainerNames |-> Absent]})

SpecEnv == InitEnv /\ [][Next]_vars

\* --------------------------------------- cleanup_containers called twice
\* the handle lists: handles of distinct containers
HandleLists ==
    UNION {{[i \in 1..n |-> [name |-> ContainerName(ns[i]), feed |-> ns[i]]] :
               ns \in NameOrders(n)} : n \in 0..MaxFeeds}

\* the tracked containers are running, exited or already removed
TeardownRuntimes ==
    [ContainerNames -> {[owner |-> "run", status |-> "running"],
                        [owner |-> "run", status |-> "exited"],
                        Absent}]

InitTeardown ==
    /\ pc = "interrupted"
    /\ \E e \in Environments : osenv = e[1] /\ selfc = e[2]
    /\ cfgFile = [status |-> "ok", config |-> NoFeedsConfig]
    /\ dockerUp = TRUE
    /\ containers \in HandleLists
    /\ runtime \in TeardownRuntimes
    /\ idx = 0
    /\ ctx = [k \in {} |-> ""]
    /\ calls = << >>
    /\ stateDirs = {}
    /\ exitCode = -1
    /\ frames = << >>
    /\ sigs = [n |-> 0, last |-> "none"]
    /\ ncalls = 0
    /\ printed = [line |-> "none", running |-> 0, total |-> 0, raised |-> {}]
    /\ loopEntered = TRUE
    /\ steps = <<"connect", "load">>

NextTeardown ==
    \/ CallCleanup
    \/ CleanupStop
    \/ CleanupRemove
    \/ CleanupReturn

SpecTeardown == InitTeardown /\ [][NextTeardown]_vars

\* ------------------------------- several good feeds, varied surroundings
\* an own container whose labels cannot be read but whose networks can
LabellessContainer ==
    [gettable |-> TRUE, has_labels |-> FALSE,
     labels |-> [k \in {} |-> ""], networks |-> <<"net1">>]

\* os.environ and the own container: HOSTNAME unset, containers.get
\* raising, no networks, labels unreadable; DOCKER_NETWORK unset, set, empty
ContextEnvironments ==
    {<<[k \in {} |-> ""], NoContainer>>,
     <<[HOSTNAME |-> "self", DOCKER_NETWORK |-> "envnet"], NoContainer>>,
     <<[HOSTNAME |-> "self", DOCKER_NETWORK |-> "envnet"], ComposeContainer>>,
     <<[HOSTNAME |-> "self", DOCKER_NETWORK |-> ""], BareContainer>>,
     <<[HOSTNAME |-> "self"], LabellessContainer>>}

\* at most MaxFeeds feeds, each with a url only
ContextCfgFiles ==
    {[status |-> "ok",
      config |-> [feeds |-> [i \in 1..n |-> [name |-> NameUniverse[i],
                                             data |-> GoodFeed]]]] :
        n \in 0..MaxFeeds}

InitContext ==
    InitWith(ContextCfgFiles, ContextEnvironments, {TRUE},
             {[n \in ContainerNames |-> Absent]})

SpecContext == InitContext /\ [][Next]_vars

\* =================================================================== claims
IsRun(c) == c.op = "run"
IsOkRun(c) == c.op = "run" /\ c.ok
RunCalls == SelectSeq(calls, IsRun)
OkRunCalls == SelectSeq(calls, IsOkRun)
HandleOfCall(c) == [name |-> c.name, feed |-> c.feed]
HasFeeds == "feeds" \in DOMAIN cfgFile.config
\* process_feeds has returned
Returned == pc \in {"install", "loop"} \/ loopEntered

\* C1: a spawn call that raises never ends the pass and never leaves a
\* handle behind: every feed the loop has passed got exactly one spawn call,
\* whatever happened to the spawn calls before it; the tracked list is exactly
\* the handles of the spawn calls that succeeded, in order; and when
\* process_feeds returns, the loop has passed every feed.
C1_SpawnFailureIsolated ==
    /\ containers = [i \in 1..Len(OkRunCalls) |-> HandleOfCall(OkRunCalls[i])]
    /\ (HasFeeds /\ idx >= 1) =>
          /\ Len(RunCalls) = idx - 1
          /\ \A i \in 1..Len(RunCalls) : RunCalls[i].feed = Feeds[i].name
    /\ (HasFeeds /\ Returned) => idx = Len(Feeds) + 1

\* process_feeds returned after a spawn call that failed and a later one
\* that succeeded
C1_Witness ==
    /\ pc = "install"
    /\ \E i, j \in 1..Len(RunCalls) :
          i < j /\ ~RunCalls[i].ok /\ RunCalls[j].ok
    /\ Len(containers) < Len(RunCalls)

\* C2: a per-feed step that fails is confined to its feed: without a signal,
\* the process never ends once the pass over the feeds has started, it
\* reaches the supervision loop.
C2_BadFeedConfined ==
    (pc = "exited" /\ sigs.n = 0 /\ HasFeeds /\ idx >= 1) => loopEntered

\* the names container.stop was called on by invocation k of
\* cleanup_containers, in call order
StopNames(k) ==
    LET IsStopOf(c) == c.op = "stop" /\ c.call = k
        stops == SelectSeq(calls, IsStopOf)
    IN  [i \in 1..Len(stops) |-> stops[i].name]
HandleNames == [i \in 1..Len(containers) |-> containers[i].name]

\* C3: when the process has ended after the supervision loop was entered
\* (a signal was handled), its exit code is 0 and the cleanup_containers
\* invocation of the handler that exited ran to its end, over the whole
\* tracked list: it called stop on every handle, in list order.
C3_GracefulShutdown ==
    (pc = "exited" /\ loopEntered) =>
        /\ exitCode = 0
        /\ sigs.n >= 1
        /\ frames # << >>
        /\ Top.i = Len(containers) + 1
        /\ StopNames(Len(frames)) = HandleNames

\* one signal, two tracked containers, the process has ended
C3_Witness ==
    /\ pc = "exited"
    /\ loopEntered
    /\ sigs.n = 1
    /\ Len(containers) >= 2
    /\ exitCode = 0

\* the handles a frame has made a stop attempt on
Attempted(f) == IF f.phase = "remove" THEN f.i ELSE f.i - 1

\* C4: in every invocation of cleanup_containers, started or finished, the
\* stop calls made so far are the handles of the list in list order up to
\* the position of the pass, whatever stop and remove calls raised before:
\* no handle is skipped and no raise ends the pass.
C4_AllAttempted ==
    \A k \in 1..Len(frames) :
        /\ Attempted(frames[k]) <= Len(containers)
        /\ StopNames(k) = SubSeq(HandleNames, 1, Attempted(frames[k]))

\* a pass that went on to the end after a stop call and a remove call raised
C4_Witness ==
    /\ frames # << >>
    /\ Top.i = Len(containers) + 1
    /\ \E i, j \in 1..Len(calls) :
          /\ calls[i].op = "stop" /\ ~calls[i].ok
          /\ calls[j].op = "remove" /\ ~calls[j].ok
          /\ calls[i].name # calls[Len(calls)].name
          /\ calls[j].name # calls[Len(calls)].name
          /\ calls[Len(calls)].op \in {"stop", "remove"}

\* a stop or remove call on container n raised in invocation k
RaisedIn(k, n) ==
    \E i \in 1..Len(calls) :
        /\ calls[i].op \in {"stop", "remove"}
        /\ calls[i].call = k
        /\ calls[i].name = n
        /\ ~calls[i].ok

\* C5 as stated: after two calls of cleanup_containers on one list, no
\* container of the list remains in the runtime.
C5_NothingRemains ==
    ncalls = 2 =>
        \A i \in 1..Len(containers) : runtime[containers[i].name].owner = "none"

\* C5 as amended: both calls run to their end with a stop attempt on every
\* handle (nothing is raised out of them), and after the second call a
\* container of the list remains only if a stop or remove call on it raised
\* in both calls.
C5_TeardownTwice ==
    /\ \A k \in 1..ncalls : StopNames(k) = HandleNames
    /\ ncalls = 2 =>
          \A i \in 1..Len(containers) :
              runtime[containers[i].name].owner # "none" =>
                  RaisedIn(1, containers[i].name) /\ RaisedIn(2, containers[i].name)

\* two calls done on a list of two, nothing remains, and the second call's
\* stop on a container the first call removed raised and was absorbed
C5_Witness ==
    /\ ncalls = 2
    /\ Len(containers) >= 2
    /\ \A i \in 1..Len(containers) : runtime[containers[i].name].owner = "none"
    /\ \E i, j \in 1..Len(calls) :
          /\ calls[i].op = "remove" /\ calls[i].call = 1 /\ calls[i].ok
          /\ calls[j].op = "stop" /\ calls[j].call = 2 /\ ~calls[j].ok
          /\ calls[i].name = calls[j].name

\* C6: no two tracked handles belong to one feed; every spawn call and every
\* handle carries the name 'ldes-consumer-<feed name>'; and when the spawn
\* calls of all N feeds have succeeded, process_feeds has returned with
\* exactly the N handles, in the order of the feeds.
C6_OneHandlePerFeed ==
    /\ \A i, j \in 1..Len(containers) :
          containers[i].feed = containers[j].feed => i = j
    /\ \A i \in 1..Len(containers) :
          containers[i].name = "ldes-consumer-" \o containers[i].feed
    /\ \A i \in 1..Len(RunCalls) :
          RunCalls[i].config.name = "ldes-consumer-" \o RunCalls[i].feed
    /\ (HasFeeds /\ idx >= 1 /\ Len(OkRunCalls) = Len(Feeds)) =>
          /\ pc # "feeds"
          /\ idx = Len(Feeds) + 1
          /\ Len(containers) = Len(Feeds)
          /\ \A i \in 1..Len(Feeds) : containers[i].feed = Feeds[i].name

\* process_feeds returned with every one of two or more feeds spawned
C6_Witness ==
    /\ pc = "install"
    /\ HasFeeds
    /\ Len(Feeds) >= 2
    /\ Len(OkRunCalls) = Len(Feeds)
    /\ Len(containers) = Len(Feeds)

\* C7, one step: a container a previous run left behind stays as it is, has
\* no handle in the tracked list, gets no call but spawn calls that fail, and
\* the failed spawn call is followed by the next feed.
C7_Step ==
    \A n \in ContainerNames :
        runtime[n].owner = "previous" =>
            /\ runtime'[n] = runtime[n]
            /\ \A i \in 1..Len(containers') : containers'[i].name # n
            /\ \A i \in 1..Len(calls') :
                  calls'[i].name = n => calls'[i].op = "run" /\ ~calls'[i].ok
            /\ (Len(calls') > Len(calls) /\ calls'[Len(calls')].name = n) =>
                  /\ pc' = IF idx = Len(Feeds) THEN "install" ELSE "feeds"
                  /\ idx' = idx + 1

\* C7: every step of every run satisfies C7_Step.
C7_NamingCollision == [][C7_Step]_vars

\* the spawn for the left-behind name failed and a later feed was spawned
C7_Witness ==
    \E i, j \in 1..Len(calls) :
        /\ i < j
        /\ calls[i].op = "run" /\ ~calls[i].ok
        /\ runtime[calls[i].name].owner = "previous"
        /\ calls[j].op = "run" /\ calls[j].ok
        /\ runtime[calls[j].name].owner = "run"

\* C8: when Docker is unreachable or the configuration file is missing or
\* unparseable, main gets no further than the connection and the load: no
\* call is made to the daemon, no state directory is created, the loop is
\* not entered, and if the process has ended its exit code is not 0.
C8_FatalStartup ==
    (~dockerUp \/ cfgFile.status # "ok") =>
        /\ pc \in {"connect", "load", "exited"}
        /\ calls = << >>
        /\ stateDirs = {}
        /\ ~loopEntered
        /\ containers = << >>
        /\ pc = "exited" => exitCode > 0

\* Docker was reachable, the file was unparseable, and the process has ended
\* by itself
C8_Witness ==
    /\ pc = "exited"
    /\ dockerUp
    /\ cfgFile.status = "badyaml"
    /\ sigs.n = 0
    /\ exitCode = 1

\* the configuration of the feed a call was made for
DataOf(feed_name) ==
    Feeds[CHOOSE i \in 1..Len(Feeds) : Feeds[i].name = feed_name].data

\* C9: in every spawn call, each required key the feed's environment
\* mapping sets has exactly the value set there, and TARGET_GRAPH and LDES
\* without an override have the value of target_graph and url.
C9_EnvironmentPrecedence ==
    \A i \in 1..Len(RunCalls) :
        LET c == RunCalls[i]
            feed_data == DataOf(c.feed)
            feed_env == FeedEnv(feed_data)
            resolved == c.config.environment
        IN  /\ \A k \in RequiredKeys \cap DOMAIN feed_env : resolved[k] = feed_env[k]
            /\ ("TARGET_GRAPH" \notin DOMAIN feed_env) =>
                  resolved["TARGET_GRAPH"] =
                      IF "target_graph" \in DOMAIN feed_data
                      THEN feed_data["target_graph"]
                      ELSE "urn:kgap:" \o DictGet(osenv, "GRAPH_PREFIX", "ldes")
                               \o ":" \o c.feed
            /\ ("LDES" \notin DOMAIN feed_env /\ "url" \in DOMAIN feed_data) =>
                  resolved["LDES"] = feed_data["url"]

\* C10: in every spawn call for a feed without a SPARQL_ENDPOINT override,
\* SPARQL_ENDPOINT is the default endpoint process_feeds resolved and printed.
C10_DefaultEndpoint ==
    \A i \in 1..Len(RunCalls) :
        "SPARQL_ENDPOINT" \notin DOMAIN FeedEnv(DataOf(RunCalls[i].feed)) =>
            RunCalls[i].config.environment["SPARQL_ENDPOINT"]
                = ctx.default_sparql_endpoint

\* the lookup of get_compose_labels fails: HOSTNAME unset, containers.get
\* raises, or container.labels raises
LabelsLookupFails ==
    "HOSTNAME" \notin DOMAIN osenv \/ ~selfc.gettable \/ ~selfc.has_labels
\* the lookup of get_parent_network fails or finds no network
NetworkLookupFails ==
    "HOSTNAME" \notin DOMAIN osenv \/ ~selfc.gettable \/ selfc.networks = << >>

\* C11: a context lookup that fails never fails the run: get_compose_labels
\* then returns the empty mapping and get_parent_network returns None; the
\* process does not end in the detection (without a signal it gets past it
\* to the feed loop); when process_feeds returns every feed got its spawn
\* call; and the spawn calls carry no labels when the label lookup failed
\* and no network but the DOCKER_NETWORK fallback when the network lookup
\* failed.
C11_ContextNeverFailsRun ==
    /\ LabelsLookupFails => get_compose_labels(osenv, selfc) = EmptyDict
    /\ NetworkLookupFails => get_parent_network(osenv, selfc) = PyNone
    /\ (LabelsLookupFails \/ NetworkLookupFails) =>
          /\ (pc = "exited" /\ sigs.n = 0) =>
                 (idx >= 1 /\ steps[Len(steps)] # "load")
          /\ Returned =>
                 /\ Len(RunCalls) = Len(Feeds)
                 /\ \A i \in 1..Len(Feeds) : RunCalls[i].feed = Feeds[i].name
          /\ \A i \in 1..Len(RunCalls) :
                LET config == RunCalls[i].config IN
                /\ LabelsLookupFails => "labels" \notin DOMAIN config
                /\ NetworkLookupFails =>
                      IF "DOCKER_NETWORK" \in DOMAIN osenv
                         /\ osenv["DOCKER_NETWORK"] # ""
                      THEN config.network = osenv["DOCKER_NETWORK"]
                      ELSE "network" \notin DOMAIN config

\* both lookups failed (containers.get raised) and every one of two feeds
\* was spawned
C11_Witness ==
    /\ "HOSTNAME" \in DOMAIN osenv
    /\ ~selfc.gettable
    /\ pc = "loop"
    /\ Len(Feeds) >= 2
    /\ Len(containers) = Len(Feeds)

\* C12: without a signal the supervision loop is never left: once it was
\* entered the process is still in it, has not ended, runs no handler, and
\* the next poll round can be taken - whatever the rounds so far found
\* (every container stopped or vanished, no container at all, reloads that
\* raised).
C12_LoopOnlyEndsBySignal ==
    (loopEntered /\ sigs.n = 0) =>
        /\ pc = "loop"
        /\ exitCode = -1
        /\ frames = << >>
        /\ ENABLED Poll

\* a round found every tracked container stopped or vanished, one of the
\* reloads raised, and the loop goes on
C12_Witness ==
    /\ loopEntered
    /\ sigs.n = 0
    /\ pc = "loop"
    /\ containers # << >>
    /\ printed.line = "stopped"
    /\ printed.raised # {}

\* C13: every poll round reports, over the whole tracked list, the number of
\* handles whose reload did not raise and whose container is running: the
\* reload of a vanished container raises, a handle whose reload raised is
\* not counted, the handles after it are still reloaded and counted, and
\* the count is at most the number of tracked handles.
C13_Step ==
    (pc = "loop" /\ frames = << >> /\ frames' = << >> /\ runtime' = runtime) =>
        LET n == Len(containers)
            counted == {i \in 1..n :
                          /\ i \notin printed'.raised
                          /\ runtime[containers[i].name].status = "running"}
        IN  /\ printed'.total = n
            /\ printed'.raised \subseteq 1..n
            /\ \A i \in 1..n :
                  runtime[containers[i].name].owner # "run" => i \in printed'.raised
            /\ printed'.running = Cardinality(counted)
            /\ printed'.running <= n
            /\ printed'.line = IF counted # {} THEN "running" ELSE "stopped"
C13_PollResult == [][C13_Step]_vars

\* a round in which the reload of a handle raised and a handle after it
\* was counted as running
C13_Witness ==
    /\ pc = "loop"
    /\ printed.line = "running"
    /\ \E i, j \in 1..Len(containers) :
          /\ i < j
          /\ i \in printed.raised
          /\ j \notin printed.raised
          /\ runtime[containers[j].name].status = "running"

\* the allow-listed compose labels of the own container, when they can be
\* read
DetectedLabels ==
    IF LabelsLookupFails THEN EmptyDict
    ELSE [k \in {l \in DOMAIN selfc.labels : l \in ComposeKeys} |-> selfc.labels[k]]
ServiceLabel == "com.docker.compose.service"

\* C14: the label set process_feeds detected stays what was detected, spawn
\* after spawn; when it is not empty every spawn call carries exactly its
\* labels plus a com.docker.compose.service label that is the name of the
\* call's own container, ldes-consumer-<feed>; when it is empty no spawn call
\* carries labels.
C14_LabelPropagation ==
    /\ idx >= 1 => ctx.compose_labels = DetectedLabels
    /\ \A i \in 1..Len(RunCalls) :
          LET config == RunCalls[i].config IN
          IF DOMAIN DetectedLabels # {}
          THEN /\ "labels" \in DOMAIN config
               /\ DOMAIN config.labels = DOMAIN DetectedLabels \cup {ServiceLabel}
               /\ \A k \in DOMAIN DetectedLabels :
                     config.labels[k] = DetectedLabels[k]
               /\ config.labels[ServiceLabel] = "ldes-consumer-" \o Feeds[i].name
               /\ config.labels[ServiceLabel] = config.name
          ELSE "labels" \notin DOMAIN config

\* two containers spawned in a compose project, each with its own service
\* label
C14_Witness ==
    /\ DOMAIN DetectedLabels # {}
    /\ Len(RunCalls) >= 2
    /\ RunCalls[1].config.labels[ServiceLabel] # RunCalls[2].config.labels[ServiceLabel]
    /\ ServiceLabel \notin DOMAIN ctx.compose_labels

\* the first network of the own container, when the lookup finds one
DetectedNetwork ==
    IF NetworkLookupFails THEN PyNone ELSE selfc.networks[1]
\* DOCKER_NETWORK, when set to a name
NetworkOverride == DictGet(osenv, "DOCKER_NETWORK", PyNone)
\* the spawn calls all carry docker_network as network argument, or none
\* of them carries a network argument when it is None
AllOnNetwork(docker_network) ==
    \A i \in 1..Len(RunCalls) :
        IF Truthy(docker_network)
        THEN /\ "network" \in DOMAIN RunCalls[i].config
             /\ RunCalls[i].config.network = docker_network
        ELSE "network" \notin DOMAIN RunCalls[i].config

\* C15 as stated: the spawn calls of a run are all on DOCKER_NETWORK when it
\* is set, otherwise on the detected network, otherwise on none.
C15_OverrideFirst ==
    AllOnNetwork(IF Truthy(NetworkOverride) THEN NetworkOverride
                 ELSE DetectedNetwork)

\* C15, amended: the spawn calls of a run are all on the detected network
\* (the first one of the own container) when there is one, otherwise on
\* DOCKER_NETWORK when it is set and not empty, otherwise on none.
C15_DetectedFirst ==
    AllOnNetwork(IF Truthy(DetectedNetwork) THEN DetectedNetwork
                 ELSE NetworkOverride)

\* two containers spawned on the detected network although DOCKER_NETWORK
\* names another one
C15_Witness ==
    /\ Len(RunCalls) >= 2
    /\ Truthy(NetworkOverride)
    /\ Truthy(DetectedNetwork)
    /\ NetworkOverride # DetectedNetwork
    /\ \A i \in 1..Len(RunCalls) : RunCalls[i].config.network = DetectedNetwork

\* C16: when the process has ended with a signal_handler invocation that
\* started while another one was running (a further signal during
\* teardown), container.stop has been called on every tracked handle and
\* the exit code is 0.
C16_TeardownNotCancellable ==
    (pc = "exited" /\ loopEntered /\ Len(frames) >= 2) =>
        /\ exitCode = 0
        /\ \A i \in 1..Len(containers) :
              \E j \in 1..Len(calls) :
                  calls[j].op = "stop" /\ calls[j].name = containers[i].name

\* the process has ended after a second signal that arrived when the first
\* pass had dealt with one handle of several
C16_Witness ==
    /\ pc = "exited"
    /\ loopEntered
    /\ Len(frames) >= 2
    /\ sigs.n >= 2
    /\ Len(containers) >= 2
    /\ frames[1].i = 2
    /\ frames[1].phase = "stop"

\* C17: when the process has ended after a signal, wherever the signal
\* found it, container.stop has been called on every container this run
\* spawned.
C17_NoneEscapes ==
    (pc = "exited" /\ sigs.n >= 1) =>
        \A i \in 1..Len(OkRunCalls) :
            \E j \in 1..Len(calls) :
                calls[j].op = "stop" /\ calls[j].name = OkRunCalls[i].name

\* C18: while main is in the supervision loop and no signal_handler runs,
\* no step changes the tracked list or issues a call to the daemon, and a
\* round that reports leaves the daemon as it is and reports as total the
\* number of handles process_feeds returned - also when it found handles
\* stopped or vanished.
C18_Step ==
    (pc = "loop" /\ frames = << >> /\ frames' = << >>) =>
        /\ containers' = containers
        /\ calls' = calls
        /\ printed' # printed =>
              /\ runtime' = runtime
              /\ printed'.total = Len(OkRunCalls)
              /\ printed'.total = Len(containers')
C18_PollObservesOnly == [][C18_Step]_vars

\* a round found a handle vanished and another one stopped, and both are
\* still tracked
C18_Witness ==
    /\ pc = "loop"
    /\ frames = << >>
    /\ printed.line = "stopped"
    /\ printed.total >= 2
    /\ Len(containers) = printed.total
    /\ \E i, j \in 1..Len(containers) :
          /\ runtime[containers[i].name] = Absent
          /\ runtime[containers[j].name].status = "exited"
    /\ \A j \in 1..Len(calls) : calls[j].op = "run"

\* C19: in every cleanup_containers invocation, container.remove is called
\* on a handle only after container.stop on that handle returned in the
\* same invocation; a stop call that raised is followed in its invocation
\* by no remove call on its handle; and an invocation is about to call
\* remove on a handle only when its stop call on that handle returned.
C19_StopThenRemove ==
    /\ \A j \in 1..Len(calls) :
          calls[j].op = "remove" =>
              \E i \in 1..(j - 1) :
                  /\ calls[i].op = "stop"
                  /\ calls[i].call = calls[j].call
                  /\ calls[i].name = calls[j].name
                  /\ calls[i].ok
    /\ \A i \in 1..Len(calls) :
          (calls[i].op = "stop" /\ ~calls[i].ok) =>
              \A j \in 1..Len(calls) :
                  ~(/\ calls[j].op = "remove"
                    /\ calls[j].call = calls[i].call
                    /\ calls[j].name = calls[i].name)
    /\ \A k \in 1..Len(frames) :
          (pc # "exited" /\ frames[k].phase = "remove") =>
              \E i \in 1..Len(calls) :
                  /\ calls[i].op = "stop"
                  /\ calls[i].call = ncalls + k
                  /\ calls[i].name = containers[frames[k].i].name
                  /\ calls[i].ok

\* a pass whose stop call on one handle raised and which went on to stop
\* and remove a later handle
C19_Witness ==
    \E i, j \in 1..Len(calls) :
        /\ i < j
        /\ calls[i].op = "stop" /\ ~calls[i].ok
        /\ calls[j].op = "remove"
        /\ calls[j].call = calls[i].call
        /\ calls[j].name # calls[i].name

\* in what main has done so far, every b comes after an a
Before(a, b) ==
    \A j \in 1..Len(steps) :
        steps[j] = b => \E i \in 1..(j - 1) : steps[i] = a
StartupSteps == {"connect", "load", "detect"}
IsFeedStep(s) == s \notin StartupSteps
\* the place of a feed in the configuration's mapping
FeedPos(feed_name) == CHOOSE i \in 1..Len(Feeds) : Feeds[i].name = feed_name
\* context detection happens once, before the first spawn; the feeds are
\* handed to containers.run one at a time in the stored order of the
\* mapping; the tracked list keeps that order
DetectThenFeedsInOrder ==
    /\ Cardinality({j \in 1..Len(steps) : steps[j] = "detect"}) <= 1
    /\ \A j \in 1..Len(steps) :
          IsFeedStep(steps[j]) => \E i \in 1..(j - 1) : steps[i] = "detect"
    /\ LET spawned == SelectSeq(steps, IsFeedStep) IN
       /\ Len(spawned) = Len(RunCalls)
       /\ \A i \in 1..Len(spawned) :
             spawned[i] = Feeds[i].name /\ RunCalls[i].feed = Feeds[i].name
    /\ \A i, j \in 1..Len(containers) :
          i < j => FeedPos(containers[i].feed) < FeedPos(containers[j].feed)

\* C20 as stated: the configuration is loaded before the connection to
\* Docker is established, the connection before context detection;
\* detection happens once before the first spawn and the feeds are spawned
\* and tracked in stored order.
C20_LoadThenConnect ==
    /\ Before("load", "connect")
    /\ Before("connect", "detect")
    /\ DetectThenFeedsInOrder

\* C20, amended: the connection to Docker is established before the
\* configuration is loaded, the configuration is loaded before context
\* detection; detection happens once before the first spawn and the feeds
\* are spawned and tracked in stored order.
C20_ConnectThenLoad ==
    /\ Before("connect", "load")
    /\ Before("load", "detect")
    /\ DetectThenFeedsInOrder

\* a run over a mapping stored in reverse alphabetical order, both feeds
\* spawned and tracked
C20_Witness ==
    /\ pc = "loop"
    /\ HasFeeds
    /\ Len(Feeds) >= 2
    /\ Feeds[1].name = NameUniverse[Len(Feeds)]
    /\ Len(containers) = Len(Feeds)
    /\ steps = <<"connect", "load", "detect">>
                   \o [i \in 1..Len(Feeds) |-> Feeds[i].name]

====
